---- MODULE Spec2Model ----
(***************************************************************************)
(* certbot-dns-cloudns: the Authenticator of                               *)
(* certbot_dns_cloudns/_internal/authenticator.py.                         *)
(*                                                                         *)
(* The Authenticator holds its credentials (None until _setup_credentials  *)
(* loads and validates them) and a memoized ClouDNSClient.  _perform and   *)
(* _cleanup obtain the client, resolve the validation name through CNAME   *)
(* aliases and call add_txt_record / del_txt_record on the client.         *)
(*                                                                         *)
(* resolve_alias (resolve.py) and ClouDNSClient (client.py) are imported   *)
(* by the authenticator; they are modelled at their interface.             *)
(***************************************************************************)
EXTENDS Integers, Sequences, FiniteSets, TLC

(* ------------------------------ bounds --------------------------------- *)
MaxNames == 2
MaxFiles == 2
MaxThreads == 2

Names == 1..MaxNames
\* the _domain argument: one zone, handed through to the provider unchanged
Domains == {1}
\* the validation argument: one token, handed through to the provider unchanged
Tokens == {1}
Files == 1..MaxFiles
Threads == 1..MaxThreads

(* --------------------------- program constants ------------------------- *)
\* Authenticator.ttl
ttl == 60

\* the hop limit of the alias resolver
HopLimit == 10

\* the three identity keys inspected by _validate_user_ids
required_keys == <<"auth-id", "sub-auth-id", "sub-auth-user">>

KeySet == {required_keys[i] : i \in 1..Len(required_keys)}

(* ------------------------------ values --------------------------------- *)
\* "no CNAME present" answer of the DNS data
NoCNAME == 0

\* the failure result of resolve_alias
ResolutionError == -1

\* self.credentials = None
NoCreds == [loaded |-> FALSE, keys |-> {}, password |-> FALSE, filename |-> 0]

\* the empty lru_cache of _get_client
NoClient == [id |-> 0, creds |-> NoCreds]

\* no error message
NoMsg == [adjective |-> "", noun |-> "", filename |-> 0, expected |-> <<>>, found |-> 0]

\* the credentials objects a credentials file can yield
CredsInputs ==
    [loaded : {TRUE}, keys : SUBSET KeySet, password : BOOLEAN, filename : Files]

VARIABLES
    credentials,   \* self.credentials
    client,        \* the handle memoized by lru_cache on _get_client
    constructed,   \* number of ClouDNSClient constructions so far
    dns,           \* CNAME data served by the configured nameserver
    records,       \* TXT records held by the provider
    lastOp,        \* the last handler invocation and how it ended
    pc,            \* per thread: position inside a running handler
    frame          \* per thread: arguments and local client reference

vars == <<credentials, client, constructed, dns, records, lastOp, pc, frame>>

NoOp ==
    [op |-> "none", domain |-> 0, name |-> 0, value |-> 0, creds |-> NoCreds,
     handle |-> 0, resolved |-> 0, outcome |-> "none", report |-> "none",
     msg |-> NoMsg, calls |-> <<>>, existed |-> FALSE, prev |-> "other"]

NoFrame == [op |-> "none", domain |-> 0, name |-> 0, value |-> 0, handle |-> NoClient]

(* ----------------------- credential validation ------------------------- *)
\* credentials.conf(key) is not None
conf_present(creds, key) == key \in creds.keys

\* credentials.mapper(key)
mapper(key) == <<"dns_cloudns", key>>

RECURSIVE sum_present(_, _)
sum_present(creds, i) ==
    IF i > Len(required_keys) THEN 0
    ELSE (IF conf_present(creds, required_keys[i]) THEN 1 ELSE 0)
         + sum_present(creds, i + 1)

user_count(creds) == sum_present(creds, 1)

\* variant: only an empty identity set is rejected
validate_only_missing(creds) ==
    LET n == user_count(creds) IN
    IF n = 0
    THEN [raised |-> TRUE,
          msg |-> [adjective |-> "Missing", noun |-> "property",
                   filename |-> creds.filename,
                   expected |-> [i \in 1..Len(required_keys) |-> mapper(required_keys[i])],
                   found |-> n]]
    ELSE [raised |-> FALSE, msg |-> NoMsg]

\* variant: the noun is plural as soon as more than one key is found
validate_plural_from_two(creds) ==
    LET n == user_count(creds) IN
    IF n # 1
    THEN [raised |-> TRUE,
          msg |-> [adjective |-> IF n = 0 THEN "Missing" ELSE "Unexpected",
                   noun |-> IF n <= 1 THEN "property" ELSE "properties",
                   filename |-> creds.filename,
                   expected |-> [i \in 1..Len(required_keys) |-> mapper(required_keys[i])],
                   found |-> n]]
    ELSE [raised |-> FALSE, msg |-> NoMsg]

_validate_user_ids(creds) ==
    LET n == user_count(creds) IN
    IF n # 1
    THEN [raised |-> TRUE,
          msg |-> [adjective |-> IF n = 0 THEN "Missing" ELSE "Unexpected",
                   noun |-> IF n <= 2 THEN "property" ELSE "properties",
                   filename |-> creds.filename,
                   expected |-> [i \in 1..Len(required_keys) |-> mapper(required_keys[i])],
                   found |-> n]]
    ELSE [raised |-> FALSE, msg |-> NoMsg]

\* dns_common's _configure_credentials: the required variables, then the validator
_configure_credentials(creds) ==
    IF ~creds.password
    THEN [raised |-> TRUE,
          msg |-> [adjective |-> "Missing", noun |-> "property",
                   filename |-> creds.filename,
                   expected |-> <<mapper("auth-password")>>, found |-> 0]]
    ELSE _validate_user_ids(creds)

_setup_credentials(creds) ==
    LET r == _configure_credentials(creds) IN
    /\ credentials' = IF r.raised THEN credentials ELSE creds
    /\ lastOp' = [NoOp EXCEPT !.op = "setup", !.creds = creds,
                              !.outcome = IF r.raised THEN "PluginError" ELSE "ok",
                              !.msg = r.msg]
    /\ UNCHANGED <<client, constructed, dns, records, pc, frame>>

(* --------------------------- alias resolution -------------------------- *)
RECURSIVE resolve_hops(_, _, _)
resolve_hops(name, data, hops) ==
    IF data[name] = NoCNAME THEN name
    ELSE IF hops >= HopLimit THEN ResolutionError
    ELSE resolve_hops(data[name], data, hops + 1)

\* resolve_alias(validation_name, nameserver=...): reachable is whether the
\* nameserver answers the queries of this call
resolve_alias(name, data, reachable) ==
    IF reachable THEN resolve_hops(name, data, 0) ELSE ResolutionError

_resolve_alias(validation_name, reachable) ==
    resolve_alias(validation_name, dns, reachable)

(* ------------------------------ provider ------------------------------- *)
\* ClouDNSClient(credentials): a handle bound to the credentials given
ClouDNSClient(creds, n) == [id |-> n, creds |-> creds]

\* the outcomes a provider call can have: answer is the provider's choice
\* among success, failure, and (for a missing record) how it reports it
AddAnswers == {"ok", "error"}
DelAnswers == {"ok", "error", "raise_not_found"}

\* the TXT record a provider call names: (domain, name, value)
RecordOf(call) == <<call[2], call[3], call[4]>>

add_txt_record(handle, recs, call, answer) ==
    IF ~handle.creds.loaded \/ answer # "ok"
    THEN [records |-> recs, outcome |-> "ProviderError", report |-> "error"]
    ELSE [records |-> recs \cup {RecordOf(call)},
          outcome |-> "ok", report |-> "added"]

del_txt_record(handle, recs, call, answer) ==
    IF ~handle.creds.loaded \/ answer = "error"
    THEN [records |-> recs, outcome |-> "ProviderError", report |-> "error"]
    ELSE IF RecordOf(call) \in recs
    THEN [records |-> recs \ {RecordOf(call)},
          outcome |-> "ok", report |-> "deleted"]
    ELSE [records |-> recs, report |-> "not_found",
          outcome |-> IF answer = "raise_not_found" THEN "ProviderError" ELSE "ok"]

(* ------------------------------ handlers ------------------------------- *)
\* variant: no memoization, every call constructs a client
get_client_uncached(cache, creds, n) ==
    LET k == IF n < 2 THEN n + 1 ELSE 2 IN
    [handle |-> ClouDNSClient(creds, k), constructed |-> k]

\* functools.lru_cache(maxsize=None) around ClouDNSClient(self.credentials)
_get_client(cache, creds, n) ==
    IF cache.id # 0
    THEN [handle |-> cache, constructed |-> n]
    ELSE [handle |-> ClouDNSClient(creds, n + 1), constructed |-> n + 1]

\* variant: the record is placed at the unresolved validation name
perform_calls_unresolved(domain, validation_name, validation, target) ==
    IF target = ResolutionError THEN <<>>
    ELSE << <<"add_txt_record", domain, validation_name, validation, ttl>> >>

\* variant: a failed resolution falls back to the validation name
perform_calls_fallback(domain, validation_name, validation, target) ==
    << <<"add_txt_record", domain,
         IF target = ResolutionError THEN validation_name ELSE target,
         validation, ttl>> >>

\* the provider calls _perform issues once its arguments are evaluated
perform_calls(domain, validation_name, validation, target) ==
    IF target = ResolutionError THEN <<>>
    ELSE << <<"add_txt_record", domain, target, validation, ttl>> >>

\* variant: the record is deleted at the unresolved validation name
cleanup_calls_unresolved(domain, validation_name, validation, target) ==
    IF target = ResolutionError THEN <<>>
    ELSE << <<"del_txt_record", domain, validation_name, validation>> >>

\* the provider calls _cleanup issues once its arguments are evaluated
cleanup_calls(domain, validation_name, validation, target) ==
    IF target = ResolutionError THEN <<>>
    ELSE << <<"del_txt_record", domain, target, validation>> >>

\* bookkeeping: the preceding handler invocation, when it returned normally
\* and had the same arguments as this one
PrevOp(domain, validation_name, validation) ==
    IF /\ lastOp.op \in {"perform", "cleanup"}
       /\ lastOp.outcome = "ok"
       /\ <<lastOp.domain, lastOp.name, lastOp.value>> = <<domain, validation_name, validation>>
    THEN lastOp.op
    ELSE "other"

\* the part of a handler after _get_client(): resolve, then the provider call
Dispatch(op, domain, validation_name, validation, handle, reachable, answer) ==
    LET target == _resolve_alias(validation_name, reachable)
        calls == IF op = "perform"
                 THEN perform_calls(domain, validation_name, validation, target)
                 ELSE cleanup_calls(domain, validation_name, validation, target)
        r == IF calls = <<>>
             THEN [records |-> records, outcome |-> "ResolutionError", report |-> "none"]
             ELSE IF op = "perform"
             THEN add_txt_record(handle, records, calls[1], answer)
             ELSE del_txt_record(handle, records, calls[1], answer)
    IN  /\ records' = r.records
        /\ lastOp' = [NoOp EXCEPT !.op = op, !.domain = domain,
                                  !.name = validation_name, !.value = validation,
                                  !.handle = handle.id, !.resolved = target,
                                  !.outcome = r.outcome, !.report = r.report,
                                  !.calls = calls,
                                  !.existed = /\ op = "perform"
                                               /\ calls # <<>>
                                               /\ RecordOf(calls[1]) \in records,
                                  !.prev = PrevOp(domain, validation_name, validation)]

_perform(domain, validation_name, validation) ==
    \E reachable \in BOOLEAN, answer \in AddAnswers :
        LET g == _get_client(client, credentials, constructed) IN
        /\ client' = g.handle
        /\ constructed' = g.constructed
        /\ Dispatch("perform", domain, validation_name, validation, g.handle,
                    reachable, answer)
        /\ UNCHANGED <<credentials, dns, pc, frame>>

_cleanup(domain, validation_name, validation) ==
    \E reachable \in BOOLEAN, answer \in DelAnswers :
        LET g == _get_client(client, credentials, constructed) IN
        /\ client' = g.handle
        /\ constructed' = g.constructed
        /\ Dispatch("cleanup", domain, validation_name, validation, g.handle,
                    reachable, answer)
        /\ UNCHANGED <<credentials, dns, pc, frame>>

(* ----------------------------- environment ----------------------------- *)
\* the zone's CNAME data changes between calls
DnsChange(name, target) ==
    /\ target # dns[name]
    /\ dns' = [dns EXCEPT ![name] = target]
    /\ UNCHANGED <<credentials, client, constructed, records, lastOp, pc, frame>>

(* --------------------------- sequential runs --------------------------- *)
\* Authenticator.__init__, no DNS aliases, no TXT records
Init ==
    /\ credentials = NoCreds
    /\ client = NoClient
    /\ constructed = 0
    /\ dns = [n \in Names |-> NoCNAME]
    /\ records = {}
    /\ lastOp = NoOp
    /\ pc = [t \in Threads |-> "idle"]
    /\ frame = [t \in Threads |-> NoFrame]

\* credentials files used while exercising the record lifecycle: one file,
\* with no identity key or with auth-id only
LifecycleCreds ==
    {c \in CredsInputs : c.filename = 1 /\ c.password /\ c.keys \in {{}, {"auth-id"}}}

\* credentials files with exactly one identity key
ValidCreds ==
    {c \in CredsInputs : c.filename = 1 /\ c.password /\ Cardinality(c.keys) = 1}

\* the record lifecycle: perform and cleanup under changing DNS data
Next ==
    \/ \E creds \in LifecycleCreds : _setup_credentials(creds)
    \/ \E d \in Domains, n \in Names, v \in Tokens : _perform(d, n, v)
    \/ \E d \in Domains, n \in Names, v \in Tokens : _cleanup(d, n, v)
    \/ \E n \in Names, m \in Names \cup {NoCNAME} : DnsChange(n, m)

Spec == Init /\ [][Next]_vars

\* credential loading over every credentials file
CredsNext == \E creds \in CredsInputs : _setup_credentials(creds)

CredsSpec == Init /\ [][CredsNext]_vars

\* client memoization: handlers interleaved with credential reloads
ClientNext ==
    \/ \E creds \in ValidCreds : _setup_credentials(creds)
    \/ \E d \in Domains, n \in Names, v \in Tokens : _perform(d, n, v)
    \/ \E d \in Domains, n \in Names, v \in Tokens : _cleanup(d, n, v)

ClientSpec == Init /\ [][ClientNext]_vars

(* --------------------------- concurrent runs --------------------------- *)
\* a thread enters _perform or _cleanup
Invoke(t, op, domain, validation_name, validation) ==
    /\ pc[t] = "idle"
    /\ pc' = [pc EXCEPT ![t] = "get_client"]
    /\ frame' = [frame EXCEPT ![t] = [op |-> op, domain |-> domain,
                                       name |-> validation_name,
                                       value |-> validation, handle |-> NoClient]]
    /\ UNCHANGED <<credentials, client, constructed, dns, records, lastOp>>

\* lru_cache wrapper: look the key up, return the cached result on a hit
cache_lookup(t) ==
    /\ pc[t] = "get_client"
    /\ IF client.id # 0
       THEN /\ frame' = [frame EXCEPT ![t].handle = client]
            /\ pc' = [pc EXCEPT ![t] = "dispatch"]
       ELSE /\ frame' = frame
            /\ pc' = [pc EXCEPT ![t] = "construct"]
    /\ UNCHANGED <<credentials, client, constructed, dns, records, lastOp>>

\* lru_cache wrapper, on a miss: call the wrapped function
construct(t) ==
    /\ pc[t] = "construct"
    /\ frame' = [frame EXCEPT ![t].handle = ClouDNSClient(credentials, constructed + 1)]
    /\ constructed' = constructed + 1
    /\ pc' = [pc EXCEPT ![t] = "store"]
    /\ UNCHANGED <<credentials, client, dns, records, lastOp>>

\* lru_cache wrapper, on a miss: store the result under the key, return it
cache_store(t) ==
    /\ pc[t] = "store"
    /\ client' = frame[t].handle
    /\ pc' = [pc EXCEPT ![t] = "dispatch"]
    /\ UNCHANGED <<credentials, constructed, dns, records, lastOp, frame>>

\* the rest of the handler, on the client this thread obtained
dispatch(t) ==
    /\ pc[t] = "dispatch"
    /\ \E reachable \in BOOLEAN, answer \in DelAnswers :
           Dispatch(frame[t].op, frame[t].domain, frame[t].name, frame[t].value,
                    frame[t].handle, reachable, answer)
    /\ pc' = [pc EXCEPT ![t] = "idle"]
    /\ frame' = [frame EXCEPT ![t] = NoFrame]
    /\ UNCHANGED <<credentials, client, constructed, dns>>

\* the authenticator after _setup_credentials, no handler running
ConcInit ==
    /\ credentials = [loaded |-> TRUE, keys |-> {"auth-id"}, password |-> TRUE,
                      filename |-> 1]
    /\ client = NoClient
    /\ constructed = 0
    /\ dns = [n \in Names |-> NoCNAME]
    /\ records = {}
    /\ lastOp = NoOp
    /\ pc = [t \in Threads |-> "idle"]
    /\ frame = [t \in Threads |-> NoFrame]

ConcNext ==
    \/ \E t \in Threads, op \in {"perform", "cleanup"},
          d \in Domains, n \in Names, v \in Tokens : Invoke(t, op, d, n, v)
    \/ \E t \in Threads : cache_lookup(t)
    \/ \E t \in Threads : construct(t)
    \/ \E t \in Threads : cache_store(t)
    \/ \E t \in Threads : dispatch(t)

ConcSpec == ConcInit /\ [][ConcNext]_vars

(* ------------------------------ properties ----------------------------- *)
Handlers == {"perform", "cleanup"}

\* the names met when following CNAMEs from name, at most k hops
RECURSIVE chain_of(_, _, _)
chain_of(name, data, k) ==
    IF k = 0 \/ data[name] = NoCNAME THEN {name}
    ELSE {name} \cup chain_of(data[name], data, k - 1)

\* x is the end of the CNAME chain of name: on the chain, and not an alias
IsFinalTarget(name, x, data) ==
    /\ x \in chain_of(name, data, MaxNames)
    /\ data[x] = NoCNAME
    /\ (data[name] = NoCNAME => x = name)
    /\ (data[name] # NoCNAME => x # name)

\* the validator ran: the required auth-password was present
ValidatorRan == lastOp.op = "setup" /\ lastOp.creds.password

\* C1: _validate_user_ids accepts a credentials object if and only if exactly
\* one of auth-id, sub-auth-id, sub-auth-user is present; with 0, 2 or 3 of
\* them it fails with a PluginError (and the credentials are not installed).
C1_ExactlyOneIdentity ==
    ValidatorRan =>
        /\ lastOp.outcome = "ok" <=> Cardinality(lastOp.creds.keys \cap KeySet) = 1
        /\ lastOp.outcome \in {"ok", "PluginError"}
        /\ lastOp.outcome = "ok" => credentials = lastOp.creds
        /\ lastOp.outcome = "PluginError" => credentials # lastOp.creds

C1_Witness ==
    /\ ValidatorRan
    /\ lastOp.outcome = "PluginError"
    /\ Cardinality(lastOp.creds.keys) = 2

\* the message carries the credentials file path, the expected keys and the count
CarriesDiagnostics ==
    /\ lastOp.msg.filename = lastOp.creds.filename
    /\ lastOp.msg.found = Cardinality(lastOp.creds.keys)
    /\ lastOp.msg.expected = <<mapper("auth-id"), mapper("sub-auth-id"),
                               mapper("sub-auth-user")>>

\* C2 (as stated): when validation fails, zero keys found gives "Missing
\* property" and more than one key found (2 or 3) gives "Unexpected
\* properties"; the message carries the file path and the count.
C2_AsStated ==
    (ValidatorRan /\ lastOp.outcome = "PluginError") =>
        /\ lastOp.msg.found = 0 =>
               lastOp.msg.adjective = "Missing" /\ lastOp.msg.noun = "property"
        /\ lastOp.msg.found > 1 =>
               lastOp.msg.adjective = "Unexpected" /\ lastOp.msg.noun = "properties"
        /\ CarriesDiagnostics

\* C2 (amended): zero keys found gives "Missing property", exactly two keys
\* found gives "Unexpected property" (singular) and three keys found gives
\* "Unexpected properties"; the message carries the file path and the count.
C2_MessageWording ==
    (ValidatorRan /\ lastOp.outcome = "PluginError") =>
        /\ lastOp.msg.found \in {0, 2, 3}
        /\ lastOp.msg.found = 0 =>
               lastOp.msg.adjective = "Missing" /\ lastOp.msg.noun = "property"
        /\ lastOp.msg.found = 2 =>
               lastOp.msg.adjective = "Unexpected" /\ lastOp.msg.noun = "property"
        /\ lastOp.msg.found = 3 =>
               lastOp.msg.adjective = "Unexpected" /\ lastOp.msg.noun = "properties"
        /\ CarriesDiagnostics

C2_Witness ==
    /\ ValidatorRan
    /\ lastOp.outcome = "PluginError"
    /\ lastOp.msg.found = 2
    /\ lastOp.msg.noun = "property"

\* C3: a _perform that returns normally has issued exactly one provider call,
\* add_txt_record(domain, target, validation, 60), where target is the end of
\* the CNAME chain of validation_name in the DNS data of that moment (the
\* validation name itself when it has no CNAME, never the alias otherwise).
C3_PerformAddsAtTarget ==
    [][(dns' = dns /\ lastOp'.op = "perform" /\ lastOp'.outcome = "ok") =>
          /\ \E x \in Names :
                /\ IsFinalTarget(lastOp'.name, x, dns')
                /\ lastOp'.calls =
                       << <<"add_txt_record", lastOp'.domain, x, lastOp'.value, 60>> >>
                /\ <<lastOp'.domain, x, lastOp'.value>> \in records'
      ]_vars

C3_Witness ==
    /\ lastOp.op = "perform"
    /\ lastOp.outcome = "ok"
    /\ lastOp.resolved # lastOp.name
    /\ Len(lastOp.calls) = 1
    /\ lastOp.calls[1][3] = lastOp.resolved

\* C4: a _cleanup whose resolution succeeds issues del_txt_record(domain,
\* target, validation) with target the end of the CNAME chain of
\* validation_name in the DNS data at the time of this call, whatever name an
\* earlier _perform resolved.
C4_CleanupResolvesAfresh ==
    [][(dns' = dns /\ lastOp'.op = "cleanup" /\ lastOp'.resolved # ResolutionError) =>
          /\ \E x \in Names :
                /\ IsFinalTarget(lastOp'.name, x, dns')
                /\ lastOp'.calls =
                       << <<"del_txt_record", lastOp'.domain, x, lastOp'.value>> >>
                /\ (lastOp'.report = "deleted" =>
                        <<lastOp'.domain, x, lastOp'.value>> \in records \ records')
      ]_vars

\* the CNAME data changed after a perform: its record sits at another name
\* than the one this cleanup resolved and targeted
C4_Witness ==
    /\ lastOp.op = "cleanup"
    /\ lastOp.prev = "perform"
    /\ lastOp.report = "not_found"
    /\ lastOp.resolved # lastOp.name
    /\ <<lastOp.domain, lastOp.name, lastOp.value>> \in records

\* this step is a _cleanup that directly follows a _perform with identical
\* arguments, and both provider calls succeeded
PerformThenCleanup ==
    /\ lastOp.op = "perform"
    /\ lastOp.outcome = "ok"
    /\ lastOp'.op = "cleanup"
    /\ lastOp'.prev = "perform"
    /\ lastOp'.outcome = "ok"
    /\ lastOp'.report = "deleted"

\* the TXT records before the _perform that lastOp describes, seen from the
\* state it left: the perform added its record unless that existed already
RecordsBeforePerform ==
    IF lastOp.existed THEN records ELSE records \ {RecordOf(lastOp.calls[1])}

\* C5 (as stated): perform followed immediately by cleanup with identical
\* arguments, provider calls succeeding, leaves the TXT record set equal to
\* what it was before perform, whatever DNS data the two calls observe.
C5_AsStated ==
    [][PerformThenCleanup => records' = RecordsBeforePerform]_vars

\* C5 (amended): perform followed immediately by cleanup with identical
\* arguments, provider calls succeeding, leaves the TXT record set equal to
\* what it was before perform, provided both calls resolve validation_name to
\* the same target and the record was not already present before perform.
C5_RoundTrip ==
    [][(/\ PerformThenCleanup
        /\ lastOp'.resolved = lastOp.resolved
        /\ ~lastOp.existed)
       => records' = RecordsBeforePerform]_vars

C5_Witness ==
    /\ lastOp.op = "cleanup"
    /\ lastOp.prev = "perform"
    /\ lastOp.report = "deleted"
    /\ lastOp.resolved # lastOp.name
    /\ <<lastOp.domain, lastOp.resolved, lastOp.value>> \notin records

\* C6: when alias resolution fails in _perform or _cleanup the call ends with
\* the resolution error, no add_txt_record or del_txt_record call is issued
\* and the provider's TXT records are unchanged.
C6_ResolutionFailureAborts ==
    [][(dns' = dns /\ lastOp'.op \in Handlers /\ lastOp'.resolved = ResolutionError) =>
          /\ lastOp'.outcome = "ResolutionError"
          /\ lastOp'.calls = <<>>
          /\ records' = records
      ]_vars

C6_Witness ==
    /\ lastOp.op \in Handlers
    /\ lastOp.resolved = ResolutionError
    /\ lastOp.outcome = "ResolutionError"
    /\ records # {}

\* C7: a second cleanup in a row with the same arguments, whose
\* del_txt_record finds no record, returns normally.
C7_SecondCleanupReturns ==
    (lastOp.op = "cleanup" /\ lastOp.prev = "cleanup" /\ lastOp.report = "not_found")
        => lastOp.outcome = "ok"

\* C8: perform or cleanup invoked while credentials is None fails with a
\* configuration error, constructs and caches no client and issues no
\* provider call.
C8_UnconfiguredRejected ==
    (lastOp.op \in Handlers /\ ~credentials.loaded) =>
        /\ lastOp.outcome = "ConfigurationError"
        /\ client = NoClient
        /\ constructed = 0
        /\ lastOp.calls = <<>>

\* C9: in a sequential run the client is constructed at most once, from the
\* credentials held at the first _get_client call, and every handler uses
\* that one handle, also after the credentials were loaded again.
C9_ClientConstructedOnce ==
    [][/\ constructed' <= 1
       /\ (client.id # 0 => client' = client)
       /\ (client.id = 0 /\ client'.id # 0) =>
              client' = [id |-> 1, creds |-> credentials]
       /\ (lastOp'.op \in Handlers => lastOp'.handle = client'.id /\ client'.id = 1)
      ]_vars

C9_Witness ==
    /\ lastOp.op \in Handlers
    /\ lastOp.prev \in Handlers
    /\ lastOp.handle = 1
    /\ constructed = 1
    /\ client.creds.loaded
    /\ client.creds # credentials

\* C10: under concurrent handler invocations at most one client is
\* constructed and all callers hold the same handle.
C10_ConcurrentSingleClient ==
    /\ constructed <= 1
    /\ \A t, u \in Threads :
          (frame[t].handle.id # 0 /\ frame[u].handle.id # 0)
              => frame[t].handle = frame[u].handle

====
